---- MODULE Spec2Model ----
(***************************************************************************)
(* Model of easybuild/tools/package/utilities.py (packaging support) and   *)
(* easybuild/tools/systemtools.py (system probes).                         *)
(*                                                                         *)
(* Values returned or raised by a function are records                     *)
(*   [kind |-> "ret" | "raise" | "none", ...];                             *)
(* strings that the code formats, strips, splits or parses are sequences   *)
(* of tokens, so that the conversions are computed and not assumed.        *)
(***************************************************************************)
EXTENDS Integers, Sequences, FiniteSets, TLC

VARIABLES
    cfg,        \* build options: package_tool, package_type, experimental, pns
    path,       \* the set of commands found on PATH
    cwd,        \* process working directory: 0 (start directory) or a temp dir
    nDirs,      \* number of temporary directories created so far
    instance,   \* ActivePNS.instance, the Singleton's cache (NoInstance if unset)
    nCreated,   \* number of ActivePNS objects constructed so far
    got,        \* first ActivePNS object a request returned (history)
    req,        \* outcome of the latest ActivePNS() request
    chk,        \* outcome of the latest check_pkg_support() call
    pc,         \* position inside package(): "idle" when no call is running
    eb,         \* the easyblock of the running package() call
    workdir,    \* local workdir of package_with_fpm
    cmd,        \* local cmd of package_with_fpm (token sequence)
    log,        \* steps the running/latest package() call has performed
    call0,      \* cwd and nDirs when the running/latest package() call started
    result,     \* outcome of the latest package() call
    lastop,     \* name of the latest operation or step
    probe       \* latest system probe call: function, inputs, outcome

pkgvars == <<cfg, path, cwd, nDirs, instance, nCreated, got, req, chk, pc, eb,
             workdir, cmd, log, call0, result, lastop>>
vars == <<cfg, path, cwd, nDirs, instance, nCreated, got, req, chk, pc, eb,
          workdir, cmd, log, call0, result, lastop, probe>>

-----------------------------------------------------------------------------
(* Bounds of the model *)

MaxDirs == 2
MaxDeps == 2
MaxLines == 4

-----------------------------------------------------------------------------
(* Constants of utilities.py *)

DEFAULT_PNS == "EasyBuildPNS"
PKG_TOOL_FPM == "fpm"
PKG_TYPE_RPM == "rpm"
DUMMY_TOOLCHAIN_NAME == "dummy"

(* Values the configuration and the environment range over *)
ToolNames == {"fpm", "alien"}
TypeNames == {"rpm", "deb"}
PathCommands == {"fpm", "alien", "rpmbuild"}
SchemeNames == {"EasyBuildPNS", "CustomPNS", "NoSuchPNS"}
ToolchainNames == {"dummy", "goolf"}
DepNames == {"zlib", "goolf"}
SoftwareNames == {"bzip2"}

RECURSIVE SeqsUpTo(_, _)
SeqsUpTo(S, n) ==
    IF n = 0 THEN {<<>>}
    ELSE LET shorter == SeqsUpTo(S, n - 1)
         IN  shorter \cup {Append(s, x) : s \in {t \in shorter : Len(t) = n - 1}, x \in S}

Range(s) == {s[i] : i \in 1..Len(s)}

-----------------------------------------------------------------------------
(* Outcomes *)

NoOutcome == [kind |-> "none", exc |-> "", msg |-> "", args |-> <<>>]
Raise(exc, msg, args) == [kind |-> "raise", exc |-> exc, msg |-> msg, args |-> args]
Return == [kind |-> "ret", exc |-> "", msg |-> "", args |-> <<>>]

-----------------------------------------------------------------------------
(* check_pkg_support *)

(* which(cmd): the command's path when it is on PATH, None otherwise;
   only its truth value is used *)
which(command, p) == command \in p

(* _log.experimental: packaging "requires using --experimental"; the logger
   raises when experimental mode is off *)
LogExperimental(c) ==
    IF c.experimental THEN Return
    ELSE Raise("EasyBuildError", "Experimental functionality (use --experimental option to enable): %s",
               <<"Support for packaging installed software.">>)

check_pkg_support_any_rpm(c, p) ==
    IF LogExperimental(c).kind = "raise" THEN LogExperimental(c)
    ELSE LET pkgtool == c.package_tool
         IN  IF which(pkgtool, p)
             THEN IF c.package_type = PKG_TYPE_RPM
                  THEN IF which("rpmbuild", p) THEN Return
                       ELSE Raise("EasyBuildError",
                                  "rpmbuild is required when generating RPM packages with FPM, but was not found",
                                  <<>>)
                  ELSE Return
             ELSE Raise("EasyBuildError", "Selected packaging tool '%s' not found", <<pkgtool>>)

check_pkg_support(c, p) ==
    IF LogExperimental(c).kind = "raise" THEN LogExperimental(c)
    ELSE LET pkgtool == c.package_tool
         IN  IF which(pkgtool, p)
             THEN IF pkgtool = PKG_TOOL_FPM /\ c.package_type = PKG_TYPE_RPM
                  THEN IF which("rpmbuild", p) THEN Return
                       ELSE Raise("EasyBuildError",
                                  "rpmbuild is required when generating RPM packages with FPM, but was not found",
                                  <<>>)
                  ELSE Return
             ELSE Raise("EasyBuildError", "Selected packaging tool '%s' not found", <<pkgtool>>)

-----------------------------------------------------------------------------
(* ActivePNS *)

(* avail_package_naming_schemes: class name -> class, for the subclasses of
   PackageNamingScheme found in the namespace; a class is identified by its
   module and name *)
avail_package_naming_schemes ==
    [n \in {"EasyBuildPNS", "CustomPNS"} |->
        [module |-> "easybuild.tools.package.package_naming_scheme", name |-> n]]

NoClass == [module |-> "", name |-> ""]
NoInstance == [id |-> 0, pns |-> NoClass]

(* the metaclass the class statement of ActivePNS names *)
ActivePNS_metaclass_type == "type"

ActivePNS_metaclass == "Singleton"

(* ActivePNS.__init__: outcome and the class whose instance becomes self.pns *)
ActivePNS_init_default(sel_pns) ==
    LET avail_pns == avail_package_naming_schemes
    IN  IF sel_pns \in DOMAIN avail_pns
        THEN [out |-> Return, pns |-> avail_pns[sel_pns]]
        ELSE [out |-> Return, pns |-> avail_pns[DEFAULT_PNS]]

ActivePNS_init(sel_pns) ==
    LET avail_pns == avail_package_naming_schemes
    IN  IF sel_pns \in DOMAIN avail_pns
        THEN [out |-> Return, pns |-> avail_pns[sel_pns]]
        ELSE [out |-> Raise("EasyBuildError",
                            "Selected package naming scheme %s could not be found in %s",
                            <<sel_pns, DOMAIN avail_pns>>),
              pns |-> NoClass]

(* ActivePNS(): the metaclass's __call__ around __init__.  Yields the new cache,
   the object returned (NoInstance when __init__ raised), the outcome and
   whether __init__ ran (discovery and the read of the selected name happen there) *)
ActivePNS_call(cache, sel_pns, created) ==
    IF ActivePNS_metaclass = "Singleton" /\ cache # NoInstance
    THEN [cache |-> cache, obj |-> cache, out |-> Return, didInit |-> FALSE, pns |-> NoClass]
    ELSE LET r == ActivePNS_init(sel_pns)
             new == [id |-> created + 1, pns |-> r.pns]
         IN  IF r.out.kind = "raise"
             THEN [cache |-> cache, obj |-> NoInstance, out |-> r.out, didInit |-> TRUE, pns |-> r.pns]
             ELSE [cache |-> IF ActivePNS_metaclass = "Singleton" THEN new ELSE cache,
                   obj |-> new, out |-> r.out, didInit |-> TRUE, pns |-> r.pns]

NoRequest == [obj |-> NoInstance, out |-> NoOutcome, didInit |-> FALSE, pns |-> NoClass]

-----------------------------------------------------------------------------
(* package_with_fpm: the command line *)

(* A token of a command string: a literal word, a temporary directory, or a
   name produced by the naming scheme (quoted or not) *)
NoName == [cls |-> "", of |-> ""]
Lit(s) == [k |-> "lit", s |-> s, n |-> NoName, d |-> 0]
Dir(d) == [k |-> "dir", s |-> "eb-pkgs-", n |-> NoName, d |-> d]
Word(n) == [k |-> "word", s |-> "", n |-> n, d |-> 0]
Quoted(n) == [k |-> "quoted", s |-> "'", n |-> n, d |-> 0]

(* self.pns.name(ec), self.pns.version(ec), self.pns.release(): what the
   selected naming scheme class makes of an easyconfig or dependency *)
PnsName(cls, ec) == [cls |-> cls.name, of |-> ec]
PnsVersion(cls, ec) == [cls |-> cls.name, of |-> "version"]
PnsRelease(cls) == [cls |-> cls.name, of |-> "release"]

(* deps: the toolchain (unless it is the dummy toolchain), then the
   declared dependencies *)
package_deps_toolchain_last(easyblock) ==
    easyblock.deps \o (IF easyblock.toolchain # DUMMY_TOOLCHAIN_NAME
                       THEN <<easyblock.toolchain>> ELSE <<>>)

package_deps(easyblock) ==
    (IF easyblock.toolchain # DUMMY_TOOLCHAIN_NAME
     THEN <<easyblock.toolchain>> ELSE <<>>) \o easyblock.deps

(* the loop that builds depstring *)
RECURSIVE depstring_reversed(_, _)
depstring_reversed(cls, deps) ==
    IF deps = <<>> THEN <<>>
    ELSE depstring_reversed(cls, Tail(deps))
         \o <<Lit("--depends"), Quoted(PnsName(cls, Head(deps)))>>

RECURSIVE depstring(_, _)
depstring(cls, deps) ==
    IF deps = <<>> THEN <<>>
    ELSE <<Lit("--depends"), Quoted(PnsName(cls, Head(deps)))>>
         \o depstring(cls, Tail(deps))

(* cmdlist joined with spaces *)
fpm_cmd(wd, pkgtype, cls, easyblock) ==
    LET pkgname == PnsName(cls, easyblock.name)
        pkgver == PnsVersion(cls, easyblock.name)
        pkgrel == PnsRelease(cls)
    IN  <<Lit(PKG_TOOL_FPM),
          Lit("--workdir"), Dir(wd),
          Lit("--name"), Word(pkgname),
          Lit("--provides"), Word(pkgname),
          Lit("-t"), Lit(pkgtype),
          Lit("-s"), Lit("dir"),
          Lit("--version"), Word(pkgver),
          Lit("--iteration"), Word(pkgrel)>>
        \o depstring(cls, package_deps(easyblock))
        \o <<Lit("installdir"), Lit("modulefile")>>

(* package(): the step that follows the test of the configured tool *)
package_dispatch_any(pkgtool) == "mkdtemp"

package_dispatch(pkgtool) ==
    IF pkgtool = PKG_TOOL_FPM THEN "mkdtemp" ELSE "raise"

NoEasyblock == [name |-> "", toolchain |-> "", deps |-> <<>>]
Easyblocks ==
    [name : SoftwareNames, toolchain : ToolchainNames, deps : SeqsUpTo(DepNames, MaxDeps)]

Entry(step, ok, tool, dir) == [step |-> step, ok |-> ok, tool |-> tool, dir |-> dir]

-----------------------------------------------------------------------------
(* Initial state: the build options' defaults, nothing on PATH, no call made *)

NoResult == [out |-> NoOutcome, dir |-> 0]
NoProbe == [fn |-> "none"]

Init ==
    /\ cfg = [package_tool |-> PKG_TOOL_FPM, package_type |-> PKG_TYPE_RPM,
              experimental |-> FALSE, pns |-> DEFAULT_PNS]
    /\ path = {}
    /\ cwd = 0
    /\ nDirs = 0
    /\ instance = NoInstance
    /\ nCreated = 0
    /\ got = NoInstance
    /\ req = NoRequest
    /\ chk = NoOutcome
    /\ pc = "idle"
    /\ eb = NoEasyblock
    /\ workdir = 0
    /\ cmd = <<>>
    /\ log = <<>>
    /\ call0 = [cwd |-> 0, nDirs |-> 0]
    /\ result = NoResult
    /\ lastop = "init"
    /\ probe = NoProbe

-----------------------------------------------------------------------------
(* The environment: build options and PATH change between calls *)

SetPackageTool ==
    /\ pc = "idle"
    /\ \E t \in ToolNames \ {cfg.package_tool} : cfg' = [cfg EXCEPT !.package_tool = t]
    /\ lastop' = "configure"
    /\ UNCHANGED <<path, cwd, nDirs, instance, nCreated, got, req, chk, pc, eb,
                   workdir, cmd, log, call0, result, probe>>

SetPackageType ==
    /\ pc = "idle"
    /\ \E t \in TypeNames \ {cfg.package_type} : cfg' = [cfg EXCEPT !.package_type = t]
    /\ lastop' = "configure"
    /\ UNCHANGED <<path, cwd, nDirs, instance, nCreated, got, req, chk, pc, eb,
                   workdir, cmd, log, call0, result, probe>>

SetExperimental ==
    /\ pc = "idle"
    /\ cfg' = [cfg EXCEPT !.experimental = ~cfg.experimental]
    /\ lastop' = "configure"
    /\ UNCHANGED <<path, cwd, nDirs, instance, nCreated, got, req, chk, pc, eb,
                   workdir, cmd, log, call0, result, probe>>

SetNamingScheme ==
    /\ pc = "idle"
    /\ \E n \in SchemeNames \ {cfg.pns} : cfg' = [cfg EXCEPT !.pns = n]
    /\ lastop' = "configure"
    /\ UNCHANGED <<path, cwd, nDirs, instance, nCreated, got, req, chk, pc, eb,
                   workdir, cmd, log, call0, result, probe>>

SetPath ==
    /\ pc = "idle"
    /\ \E p \in (SUBSET PathCommands) \ {path} : path' = p
    /\ lastop' = "configure"
    /\ UNCHANGED <<cfg, cwd, nDirs, instance, nCreated, got, req, chk, pc, eb,
                   workdir, cmd, log, call0, result, probe>>

-----------------------------------------------------------------------------
(* Operations *)

CheckPkgSupport ==
    /\ pc = "idle"
    /\ chk' = check_pkg_support(cfg, path)
    /\ lastop' = "check_pkg_support"
    /\ UNCHANGED <<cfg, path, cwd, nDirs, instance, nCreated, got, req, pc, eb,
                   workdir, cmd, log, call0, result, probe>>

(* the state change of one ActivePNS() request *)
Request(r) ==
    /\ instance' = r.cache
    /\ nCreated' = IF r.didInit /\ r.out.kind = "ret" THEN nCreated + 1 ELSE nCreated
    /\ got' = IF got = NoInstance THEN r.obj ELSE got
    /\ req' = [obj |-> r.obj, out |-> r.out, didInit |-> r.didInit, pns |-> r.pns]

(* ActivePNS() requested by another caller *)
ActivePNSRequest ==
    /\ pc = "idle"
    /\ Request(ActivePNS_call(instance, cfg.pns, nCreated))
    /\ lastop' = "ActivePNS"
    /\ UNCHANGED <<cfg, path, cwd, nDirs, chk, pc, eb, workdir, cmd, log, call0,
                   result, probe>>

(* a call of package() ends: its locals are gone *)
Finish(out, dir) ==
    /\ result' = [out |-> out, dir |-> dir]
    /\ pc' = "idle"
    /\ eb' = NoEasyblock
    /\ workdir' = 0
    /\ cmd' = <<>>

(* package(easyblock): read the configured tool and dispatch on it *)
Package ==
    /\ pc = "idle"
    /\ nDirs < MaxDirs
    /\ \E e \in Easyblocks :
          LET pkgtool == cfg.package_tool
              next == package_dispatch(pkgtool)
          IN  /\ call0' = [cwd |-> cwd, nDirs |-> nDirs]
              /\ log' = <<Entry("check", next # "raise", pkgtool, 0)>>
              /\ IF next = "raise"
                 THEN /\ Finish(Raise("EasyBuildError", "Unknown packaging tool specified: %s",
                                      <<pkgtool>>), 0)
                 ELSE /\ pc' = next
                      /\ eb' = e
                      /\ result' = NoResult
                      /\ UNCHANGED <<workdir, cmd>>
    /\ lastop' = "package"
    /\ UNCHANGED <<cfg, path, cwd, nDirs, instance, nCreated, got, req, chk, probe>>

(* workdir = tempfile.mkdtemp(prefix='eb-pkgs-') *)
Mkdtemp ==
    /\ pc = "mkdtemp"
    /\ \E ok \in BOOLEAN :
          /\ log' = Append(log, Entry("mkdtemp", ok, "", IF ok THEN nDirs + 1 ELSE 0))
          /\ IF ok
             THEN /\ nDirs' = nDirs + 1
                  /\ workdir' = nDirs + 1
                  /\ pc' = "chdir"
                  /\ UNCHANGED <<eb, cmd, result>>
             ELSE /\ Finish(Raise("OSError", "mkdtemp", <<>>), 0)
                  /\ UNCHANGED nDirs
    /\ lastop' = "mkdtemp"
    /\ UNCHANGED <<cfg, path, cwd, instance, nCreated, got, req, chk, call0, probe>>

(* os.chdir(workdir), OSError turned into EasyBuildError *)
Chdir ==
    /\ pc = "chdir"
    /\ \E ok \in BOOLEAN :
          /\ log' = Append(log, Entry("chdir", ok, "", workdir))
          /\ IF ok
             THEN /\ cwd' = workdir
                  /\ pc' = "resolve"
                  /\ UNCHANGED <<eb, workdir, cmd, result>>
             ELSE /\ Finish(Raise("EasyBuildError", "Failed to chdir into workdir %s: %s",
                                  <<workdir>>), 0)
                  /\ UNCHANGED cwd
    /\ lastop' = "chdir"
    /\ UNCHANGED <<cfg, path, nDirs, instance, nCreated, got, req, chk, call0, probe>>

(* package_naming_scheme = ActivePNS(), then the names, deps and cmd *)
Resolve ==
    /\ pc = "resolve"
    /\ LET r == ActivePNS_call(instance, cfg.pns, nCreated)
       IN  /\ Request(r)
           /\ log' = Append(log, Entry("resolve", r.out.kind = "ret", "", workdir))
           /\ IF r.out.kind = "ret"
              THEN /\ cmd' = fpm_cmd(workdir, cfg.package_type, r.obj.pns, eb)
                   /\ pc' = "run"
                   /\ UNCHANGED <<eb, workdir, result>>
              ELSE Finish(r.out, 0)
    /\ lastop' = "resolve"
    /\ UNCHANGED <<cfg, path, cwd, nDirs, chk, call0, probe>>

(* run_cmd(cmd, log_all=True, simple=True): raises when the command fails *)
RunCmd ==
    /\ pc = "run"
    /\ \E ok \in BOOLEAN :
          /\ log' = Append(log, Entry("run", ok, "", workdir))
          /\ IF ok
             THEN /\ pc' = "return"
                  /\ UNCHANGED <<eb, workdir, cmd, result>>
             ELSE Finish(Raise("EasyBuildError", "cmd \"%s\" exited with exitcode %s and output:\n%s",
                               <<cmd>>), 0)
    /\ lastop' = "run_cmd"
    /\ UNCHANGED <<cfg, path, cwd, nDirs, instance, nCreated, got, req, chk, call0, probe>>

(* return workdir *)
ReturnWorkdir ==
    /\ pc = "return"
    /\ log' = Append(log, Entry("return", TRUE, "", workdir))
    /\ Finish(Return, workdir)
    /\ lastop' = "return"
    /\ UNCHANGED <<cfg, path, cwd, nDirs, instance, nCreated, got, req, chk, call0, probe>>

NextPkg ==
    \/ SetPackageTool
    \/ SetPackageType
    \/ SetNamingScheme
    \/ ActivePNSRequest
    \/ Package
    \/ Mkdtemp
    \/ Chdir
    \/ Resolve
    \/ RunCmd
    \/ ReturnWorkdir

SpecPkg == Init /\ [][NextPkg]_vars

NextSupport ==
    \/ SetPackageTool
    \/ SetPackageType
    \/ SetExperimental
    \/ SetNamingScheme
    \/ SetPath
    \/ ActivePNSRequest
    \/ CheckPkgSupport

SpecSupport == Init /\ [][NextSupport]_vars

-----------------------------------------------------------------------------
(* Claims about packaging *)

ToolNotFound == ~which(cfg.package_tool, path)
RpmbuildMissing ==
    /\ which(cfg.package_tool, path)
    /\ cfg.package_tool = PKG_TOOL_FPM
    /\ cfg.package_type = PKG_TYPE_RPM
    /\ ~which("rpmbuild", path)
MsgToolNotFound == "Selected packaging tool '%s' not found"

(* what check_pkg_support must leave alone *)
SupportLeavesState ==
    UNCHANGED <<cfg, path, cwd, nDirs, instance, nCreated, got, req, pc, eb,
                workdir, cmd, log, call0, result>>

(* C1, as stated: check_pkg_support raises exactly when the configured tool is
   not on PATH (message with the tool name) or when the tool is fpm, the type is
   rpm and rpmbuild is not on PATH (another message); it changes no state. *)
C1_RaisesInTwoCasesOnly ==
    [][lastop' = "check_pkg_support" =>
         /\ (chk'.kind = "raise") <=> (ToolNotFound \/ RpmbuildMissing)
         /\ ToolNotFound =>
               /\ chk'.msg = MsgToolNotFound
               /\ cfg.package_tool \in Range(chk'.args)
         /\ RpmbuildMissing => chk'.msg # MsgToolNotFound
         /\ SupportLeavesState]_vars

(* C1, amended: check_pkg_support raises exactly in three cases: experimental
   mode is off (whatever is on PATH); otherwise the configured tool is not on
   PATH (message with the tool name); otherwise the tool is fpm, the type is
   rpm and rpmbuild is not on PATH (a message distinct from the other two).
   It returns normally in every other case and never changes state. *)
C1_RaisesInThreeCasesOnly ==
    [][lastop' = "check_pkg_support" =>
         /\ (chk'.kind = "raise") <=>
               (~cfg.experimental \/ ToolNotFound \/ RpmbuildMissing)
         /\ chk'.kind = "raise" => chk'.exc = "EasyBuildError"
         /\ ~cfg.experimental =>
               chk'.msg \notin {MsgToolNotFound, check_pkg_support([cfg EXCEPT !.experimental = TRUE,
                                                       !.package_tool = PKG_TOOL_FPM,
                                                       !.package_type = PKG_TYPE_RPM],
                                                  {PKG_TOOL_FPM}).msg}
         /\ (cfg.experimental /\ ToolNotFound) =>
               /\ chk'.msg = MsgToolNotFound
               /\ cfg.package_tool \in Range(chk'.args)
         /\ (cfg.experimental /\ RpmbuildMissing) =>
               /\ chk'.msg # MsgToolNotFound
               /\ chk'.msg # LogExperimental([cfg EXCEPT !.experimental = FALSE]).msg
         /\ SupportLeavesState]_vars

C1_Witness ==
    /\ lastop = "check_pkg_support"
    /\ cfg.experimental
    /\ RpmbuildMissing
    /\ chk.kind = "raise"
    /\ instance # NoInstance

IsRequest == lastop \in {"ActivePNS", "resolve"}

(* C2: when ActivePNS is constructed (__init__ runs) with a selected name that
   is not a discovered class name, it raises an error carrying the selected
   name and all discovered names and instantiates no strategy; with a selected
   name that is discovered, it succeeds and wraps the class of that name. *)
C2_UnknownSchemeRaises ==
    (IsRequest /\ req.didInit) =>
        IF cfg.pns \notin DOMAIN avail_package_naming_schemes
        THEN /\ req.out.kind = "raise"
             /\ req.out.exc = "EasyBuildError"
             /\ Len(req.out.args) = 2
             /\ req.out.args[1] = cfg.pns
             /\ req.out.args[2] = DOMAIN avail_package_naming_schemes
             /\ req.pns = NoClass
             /\ req.obj = NoInstance
        ELSE /\ req.out.kind = "ret"
             /\ req.pns = avail_package_naming_schemes[cfg.pns]
             /\ req.obj.pns = avail_package_naming_schemes[cfg.pns]
             /\ req.obj.pns.name = cfg.pns

C2_Witness ==
    /\ lastop = "resolve"
    /\ req.didInit
    /\ cfg.pns = "NoSuchPNS"
    /\ req.out.kind = "raise"

(* C3: at most one ActivePNS object is ever constructed, and every request
   made after a successful one (by package_with_fpm or by anyone else) returns
   that same object without running discovery or reading the selected name
   again, whatever the configured name is by then. *)
C3_Singleton ==
    [][/\ nCreated' <= 1
       /\ (lastop' \in {"ActivePNS", "resolve"} /\ got # NoInstance) =>
             /\ req'.out.kind = "ret"
             /\ req'.obj = got
             /\ ~req'.didInit
             /\ instance' = instance]_vars

C3_Witness ==
    /\ lastop = "resolve"
    /\ req.out.kind = "ret"
    /\ ~req.didInit
    /\ cfg.pns = "NoSuchPNS"
    /\ req.obj = got
    /\ req.obj.pns.name = "CustomPNS"

(* the names given by the --depends fragments of a command, in order *)
RECURSIVE DependsOf(_)
DependsOf(c) ==
    IF Len(c) < 2 THEN <<>>
    ELSE IF c[1] = Lit("--depends") /\ c[2].k = "quoted"
         THEN <<c[2].n>> \o DependsOf(SubSeq(c, 3, Len(c)))
         ELSE DependsOf(Tail(c))

NumDependsFlags(c) == Cardinality({i \in 1..Len(c) : c[i] = Lit("--depends")})

(* C4, as stated: with N declared dependencies the command has exactly N
   --depends fragments, the i-th naming the i-th dependency; with no declared
   dependency it has none. *)
C4_OneFragmentPerDeclaredDep ==
    cmd # <<>> =>
        LET D == DependsOf(cmd)
        IN  /\ NumDependsFlags(cmd) = Len(eb.deps)
            /\ Len(D) = Len(eb.deps)
            /\ \A i \in 1..Len(eb.deps) : D[i] = PnsName(instance.pns, eb.deps[i])
            /\ eb.deps = <<>> => NumDependsFlags(cmd) = 0

(* C4, amended: the command has one --depends fragment per declared
   dependency, in order, after one more fragment when the toolchain is not the
   dummy toolchain: N declared dependencies give N fragments with the dummy
   toolchain and N + 1 otherwise, and there is no --depends fragment exactly
   when there is no declared dependency and the toolchain is the dummy one. *)
C4_FragmentsPerDep ==
    cmd # <<>> =>
        LET D == DependsOf(cmd)
            off == IF eb.toolchain = DUMMY_TOOLCHAIN_NAME THEN 0 ELSE 1
        IN  /\ NumDependsFlags(cmd) = Len(eb.deps) + off
            /\ Len(D) = Len(eb.deps) + off
            /\ \A i \in 1..Len(eb.deps) : D[i + off] = PnsName(instance.pns, eb.deps[i])
            /\ (NumDependsFlags(cmd) = 0) <=>
                   (eb.deps = <<>> /\ eb.toolchain = DUMMY_TOOLCHAIN_NAME)

C4_Witness ==
    /\ cmd # <<>>
    /\ eb.deps = <<"zlib", "goolf">>
    /\ eb.toolchain = "goolf"
    /\ NumDependsFlags(cmd) = 3

(* C5: the dummy toolchain is never among the --depends names; any other
   toolchain gives exactly one entry, before all declared dependencies. *)
C5_DummyToolchainExcluded ==
    cmd # <<>> =>
        LET D == DependsOf(cmd)
            tc == PnsName(instance.pns, eb.toolchain)
        IN  IF eb.toolchain = DUMMY_TOOLCHAIN_NAME
            THEN /\ tc \notin Range(D)
                 /\ Len(D) = Len(eb.deps)
            ELSE /\ Len(D) = Len(eb.deps) + 1
                 /\ D[1] = tc
                 /\ Tail(D) = [i \in 1..Len(eb.deps) |-> PnsName(instance.pns, eb.deps[i])]

C5_Witness ==
    /\ cmd # <<>>
    /\ eb.toolchain = DUMMY_TOOLCHAIN_NAME
    /\ Len(eb.deps) = 2
    /\ Len(DependsOf(cmd)) = 2

StepOrder == <<"check", "mkdtemp", "chdir", "resolve", "run", "return">>

(* C10: the steps of package() happen in the order check, mkdtemp, chdir,
   naming-scheme resolution, run, return; only the last step performed can have
   failed, and then the call has raised; an unsupported tool raises an error
   naming it with no directory created and the working directory unchanged;
   the command runs at most once; the work directory is returned only after
   the command ran without error. *)
C10_StepOrder ==
    /\ Len(log) <= Len(StepOrder)
    /\ \A i \in 1..Len(log) : log[i].step = StepOrder[i]
    /\ \A i \in 1..(Len(log) - 1) : log[i].ok
    /\ (log # <<>> /\ ~log[Len(log)].ok) => (pc = "idle" /\ result.out.kind = "raise")
    /\ (log # <<>> /\ log[1].tool # PKG_TOOL_FPM) =>
           /\ Len(log) = 1
           /\ result.out.kind = "raise"
           /\ log[1].tool \in Range(result.out.args)
           /\ cwd = call0.cwd
           /\ nDirs = call0.nDirs
    /\ Cardinality({i \in 1..Len(log) : log[i].step = "run"}) <= 1
    /\ result.out.kind = "ret" =>
           /\ Len(log) = 6
           /\ log[5].step = "run" /\ log[5].ok
           /\ result.dir = log[2].dir
           /\ result.dir = cwd
           /\ result.dir > call0.nDirs

C10_Witness ==
    /\ lastop = "package"
    /\ log = <<Entry("check", FALSE, "alien", 0)>>
    /\ result.out.kind = "raise"
    /\ cwd = 1
    /\ nDirs = 1

-----------------------------------------------------------------------------
(* systemtools.py: strings are sequences of tokens (words and whitespace) *)

INTEL == "Intel"
AMD == "AMD"

PRet(v) == [kind |-> "ret", exc |-> "", val |-> v]
PRaise(exc) == [kind |-> "raise", exc |-> exc, val |-> <<>>]

Whitespace == {" ", "\n", "\t"}

(* str.strip() *)
RECURSIVE LStrip(_)
LStrip(s) == IF s # <<>> /\ Head(s) \in Whitespace THEN LStrip(Tail(s)) ELSE s
RECURSIVE RStrip(_)
RStrip(s) ==
    IF s # <<>> /\ s[Len(s)] \in Whitespace THEN RStrip(SubSeq(s, 1, Len(s) - 1)) ELSE s
Strip(s) == RStrip(LStrip(s))

(* str.split(sep): the pieces between the separators *)
RECURSIVE SplitAcc(_, _, _)
SplitAcc(s, sep, piece) ==
    IF s = <<>> THEN <<piece>>
    ELSE IF Head(s) = sep THEN <<piece>> \o SplitAcc(Tail(s), sep, <<>>)
         ELSE SplitAcc(Tail(s), sep, Append(piece, Head(s)))
Split(s, sep) == SplitAcc(s, sep, <<>>)

(* str.lower(), token by token *)
LowerTok(t) ==
    CASE t = "SuSE" -> "suse"
      [] t = "CentOS" -> "centos"
      [] t = "Red Hat Enterprise Linux Server" -> "red hat enterprise linux server"
      [] t = "Scientific Linux" -> "scientific linux"
      [] OTHER -> t
Lower(s) == [i \in 1..Len(s) |-> LowerTok(s[i])]

(* int(s): surrounding whitespace is ignored, then an optional sign and
   decimal digits; anything else is a ValueError *)
Digits == {"0", "1", "2", "3", "4", "5", "6", "7", "8", "9"}
DigitVal(c) ==
    CASE c = "0" -> 0 [] c = "1" -> 1 [] c = "2" -> 2 [] c = "3" -> 3 [] c = "4" -> 4
      [] c = "5" -> 5 [] c = "6" -> 6 [] c = "7" -> 7 [] c = "8" -> 8 [] c = "9" -> 9
RECURSIVE DecVal(_)
DecVal(ds) == IF ds = <<>> THEN 0 ELSE 10 * DecVal(SubSeq(ds, 1, Len(ds) - 1)) + DigitVal(ds[Len(ds)])
ParseInt(s) ==
    LET t == Strip(s)
        signed == t # <<>> /\ Head(t) \in {"-", "+"}
        ds == IF signed THEN Tail(t) ELSE t
    IN  IF ds # <<>> /\ \A i \in 1..Len(ds) : ds[i] \in Digits
        THEN [ok |-> TRUE, n |-> IF signed /\ Head(t) = "-" THEN 0 - DecVal(ds) ELSE DecVal(ds)]
        ELSE [ok |-> FALSE, n |-> 0]

(* /proc/cpuinfo: unreadable (IOError), or lines "key<tab>: words" *)
CpuinfoLine(key, val) == [key |-> key, val |-> val]
CpuinfoLines ==
    {CpuinfoLine("processor", <<"0">>),
     CpuinfoLine("vendor_id", <<"GenuineIntel">>),
     CpuinfoLine("vendor_id", <<"AuthenticAMD">>),
     CpuinfoLine("vendor_id", <<"CentaurHauls">>),
     CpuinfoLine("model name", <<"Intel(R)", "Core(TM)">>)}
Unreadable == [readable |-> FALSE, lines |-> <<>>]
Cpuinfos == {Unreadable} \cup {[readable |-> TRUE, lines |-> l] : l \in SeqsUpTo(CpuinfoLines, MaxLines)}

(* ^vendor_id\s+:\s*(?P<vendorid>\S+)\s*$ *)
VendorIdRegexp(line) == line.key = "vendor_id" /\ Len(line.val) = 1
(* ^model name\s+:\s*(?P<modelname>.+)\s*$ *)
ModelNameRegexp(line) == line.key = "model name" /\ Len(line.val) >= 1

(* regexp.search with re.M: the first line the pattern matches, 0 for None *)
FirstLine(lines, regexp) ==
    LET hits == {i \in 1..Len(lines) :
                    IF regexp = "vendor_id" THEN VendorIdRegexp(lines[i])
                    ELSE ModelNameRegexp(lines[i])}
    IN  IF hits = {} THEN 0 ELSE CHOOSE i \in hits : \A j \in hits : i <= j

(* read().count('processor\t:') *)
CountProcessor(lines) == Cardinality({i \in 1..Len(lines) : lines[i].key = "processor"})

(* run_cmd(cmd): the command's output and exit code *)
Cmd(out, ec) == [out |-> out, exitcode |-> ec]

-----------------------------------------------------------------------------
(* get_core_count *)

CpuCounts ==
    {[exc |-> "ImportError", n |-> 0], [exc |-> "NotImplementedError", n |-> 0],
     [exc |-> "", n |-> 2]}
Sysconfs ==
    {[exc |-> "AttributeError", n |-> 0], [exc |-> "ValueError", n |-> 0],
     [exc |-> "", n |-> -1], [exc |-> "", n |-> 8]}
NcpuOutputs ==
    {Cmd(<<>>, 1), Cmd(<<"1", "6", "\n">>, 0), Cmd(<<"0", "\n">>, 0),
     Cmd(<<"-", "1", "\n">>, 0), Cmd(<<"s", "h", ":">>, 127)}
CoreCountEnvs == [cpu_count : CpuCounts, sysconf : Sysconfs, cpuinfo : Cpuinfos, ncpu : NcpuOutputs]

get_core_count_unchecked(env) ==
    IF env.cpu_count.exc = "" THEN PRet(env.cpu_count.n)
    ELSE IF env.sysconf.exc = "" THEN PRet(env.sysconf.n)
    ELSE IF env.cpuinfo.readable /\ CountProcessor(env.cpuinfo.lines) > 0
         THEN PRet(CountProcessor(env.cpuinfo.lines))
    ELSE LET cores == ParseInt(env.ncpu.out)
         IN  IF cores.ok /\ cores.n > 0 THEN PRet(cores.n)
             ELSE PRaise("SystemToolsException")

get_core_count(env) ==
    IF env.cpu_count.exc = "" THEN PRet(env.cpu_count.n)
    ELSE IF env.sysconf.exc = "" /\ env.sysconf.n > 0 THEN PRet(env.sysconf.n)
    ELSE IF env.cpuinfo.readable /\ CountProcessor(env.cpuinfo.lines) > 0
         THEN PRet(CountProcessor(env.cpuinfo.lines))
    ELSE LET cores == ParseInt(env.ncpu.out)
         IN  IF cores.ok /\ cores.n > 0 THEN PRet(cores.n)
             ELSE PRaise("SystemToolsException")

-----------------------------------------------------------------------------
(* get_cpu_vendor, get_cpu_model *)

VENDORS == [k \in {"GenuineIntel", "AuthenticAMD"} |-> IF k = "GenuineIntel" THEN INTEL ELSE AMD]

MachdepOutputs ==
    {Cmd(<<"GenuineIntel", "\n">>, 0), Cmd(<<"AuthenticAMD", "\n">>, 1),
     Cmd(<<>>, 1), Cmd(<<"Apple", "\n">>, 0)}
HwModelOutputs ==
    {Cmd(<<"Intel(R)", " ", "Core(TM)2", "\n">>, 0), Cmd(<<"\n">>, 0),
     Cmd(<<"sysctl:", " ", "unknown", " ", "oid">>, 1)}
VendorEnvs == [cpuinfo : Cpuinfos, machdep : MachdepOutputs, hwmodel : HwModelOutputs]

get_cpu_vendor(env) ==
    LET m == IF env.cpuinfo.readable THEN FirstLine(env.cpuinfo.lines, "vendor_id") ELSE 0
        arch == IF m > 0 THEN env.cpuinfo.lines[m].val[1] ELSE ""
        out1 == Strip(env.machdep.out)
        out2 == Strip(env.hwmodel.out)
    IN  IF env.cpuinfo.readable /\ m = 0
        THEN PRaise("AttributeError")     \* None.groupdict()
        ELSE IF env.cpuinfo.readable /\ arch \in DOMAIN VENDORS
        THEN PRet(<<VENDORS[arch]>>)
        ELSE IF env.machdep.exitcode = 0 /\ out1 # <<>> /\ Len(out1) = 1
                /\ out1[1] \in DOMAIN VENDORS
        THEN PRet(<<VENDORS[out1[1]]>>)
        ELSE IF env.hwmodel.exitcode = 0 /\ out2 # <<>>
        THEN PRet(Split(out2, " ")[1])
        ELSE PRaise("SystemToolsException")

BrandOutputs ==
    {Cmd(<<"Intel(R)", " ", "Core(TM)", " ", "i5", "\n">>, 0), Cmd(<<>>, 0), Cmd(<<>>, 1)}
ModelEnvs == [cpuinfo : Cpuinfos, brand : BrandOutputs]

get_cpu_model(env) ==
    LET m == IF env.cpuinfo.readable THEN FirstLine(env.cpuinfo.lines, "model name") ELSE 0
    IN  IF env.cpuinfo.readable
        THEN IF m = 0 THEN PRaise("AttributeError")     \* None.groupdict()
             ELSE PRet(Strip(env.cpuinfo.lines[m].val))
        ELSE IF env.brand.exitcode = 0 THEN PRet(Strip(env.brand.out))
        ELSE PRet(<<"UNKNOWN">>)

-----------------------------------------------------------------------------
(* get_system_name, get_system_version *)

RawNames ==
    {<<>>, <<" ">>, <<"SuSE", " ">>, <<"debian">>, <<"CentOS">>,
     <<"Red Hat Enterprise Linux Server">>, <<"Scientific Linux">>}
Versions == {"", "11", "12"}
(* platform.uname()[2], with "." as a token of its own *)
Releases ==
    {<<"2", ".", "6", ".", "27", ".", "19-5">>,
     <<"2", ".", "6", ".", "32", ".", "12-0">>,
     <<"3", ".", "0", ".", "13-0">>,
     <<"4", ".", "4", ".", "0">>}
(* platform.linux_distribution is missing before Python 2.6 *)
LinuxDistributions == {[avail |-> FALSE, name |-> <<>>]} \cup {[avail |-> TRUE, name |-> n] : n \in RawNames}
DistEnvs ==
    [linux_distribution : LinuxDistributions, dist_name : RawNames,
     dist_version : Versions, release : Releases]

system_name_map ==
    [k \in {"red hat enterprise linux server", "scientific linux sl", "scientific linux"} |->
        IF k = "red hat enterprise linux server" THEN "RHEL" ELSE "SL"]

get_system_name(env) ==
    IF ~env.linux_distribution.avail
    THEN PRaise("NameError")      \* except AttributeErrror: the name is not defined
    ELSE LET system_name == Lower(Strip(env.linux_distribution.name))
         IN  IF system_name # <<>>
             THEN IF Len(system_name) = 1 /\ system_name[1] \in DOMAIN system_name_map
                  THEN PRet(<<system_name_map[system_name[1]]>>)
                  ELSE PRet(system_name)
             ELSE PRet(<<"UNKNOWN_SYSTEM_NAME">>)

(* kernel_version.startswith(prefix) on the list that split('.') returned *)
list_startswith(lst, prefix) == PRaise("AttributeError")

get_system_version(env) ==
    LET system_version == env.dist_version
        name == get_system_name(env)
        kernel_version == Split(env.release, ".")
        sp0 == list_startswith(kernel_version, <<"2", "6", "27">>)
        sp1 == list_startswith(kernel_version, <<"2", "6", "32">>)
        sp2 == list_startswith(kernel_version, <<"3", "0">>)
    IN  IF system_version # ""
        THEN IF name.kind = "raise" THEN name
             ELSE IF name.val = <<"suse">> /\ system_version = "11"
             THEN IF sp0.kind = "raise" THEN sp0
                  ELSE IF sp0.val THEN PRet(<<system_version, "">>)
                  ELSE IF sp1.kind = "raise" THEN sp1
                  ELSE IF sp1.val THEN PRet(<<system_version, "_SP1">>)
                  ELSE IF sp2.kind = "raise" THEN sp2
                  ELSE IF sp2.val THEN PRet(<<system_version, "_SP2">>)
                  ELSE PRet(<<system_version, "_UNKNOWN_SP">>)
             ELSE PRet(<<system_version>>)
        ELSE PRet(<<"UNKNOWN_SYSTEM_VERSION">>)

-----------------------------------------------------------------------------
(* Probe calls: each is stateless; probe records the call until the caller
   has used its outcome *)

Called(fn, env, out) == [fn |-> fn, env |-> env, out |-> out]

GetCoreCount ==
    /\ probe = NoProbe
    /\ \E env \in CoreCountEnvs : probe' = Called("get_core_count", env, get_core_count(env))
    /\ UNCHANGED pkgvars

GetCpuVendor ==
    /\ probe = NoProbe
    /\ \E env \in VendorEnvs : probe' = Called("get_cpu_vendor", env, get_cpu_vendor(env))
    /\ UNCHANGED pkgvars

GetCpuModel ==
    /\ probe = NoProbe
    /\ \E env \in ModelEnvs : probe' = Called("get_cpu_model", env, get_cpu_model(env))
    /\ UNCHANGED pkgvars

GetSystemName ==
    /\ probe = NoProbe
    /\ \E env \in DistEnvs : probe' = Called("get_system_name", env, get_system_name(env))
    /\ UNCHANGED pkgvars

GetSystemVersion ==
    /\ probe = NoProbe
    /\ \E env \in DistEnvs : probe' = Called("get_system_version", env, get_system_version(env))
    /\ UNCHANGED pkgvars

ProbeDone ==
    /\ probe # NoProbe
    /\ probe' = NoProbe
    /\ UNCHANGED pkgvars

NextProbe ==
    \/ GetCoreCount
    \/ GetCpuVendor
    \/ GetCpuModel
    \/ GetSystemName
    \/ GetSystemVersion
    \/ ProbeDone

SpecProbe == Init /\ [][NextProbe]_vars

-----------------------------------------------------------------------------
(* Claims about the system probes *)

StartsWith(s, prefix) == Len(s) >= Len(prefix) /\ SubSeq(s, 1, Len(prefix)) = prefix

IsSuse11(env) ==
    /\ env.linux_distribution.avail
    /\ Lower(Strip(env.linux_distribution.name)) = <<"suse">>
    /\ env.dist_version = "11"

(* C6: on a system named 'suse' with version '11', get_system_version returns
   the version with suffix '_SP1' for a kernel release 2.6.32.*, no suffix for
   2.6.27.*, '_SP2' for 3.0.*, '_UNKNOWN_SP' for any other kernel. *)
C6_Suse11ServicePack ==
    (probe.fn = "get_system_version" /\ IsSuse11(probe.env)) =>
        LET rel == probe.env.release
            suff == IF StartsWith(rel, <<"2", ".", "6", ".", "27", ".">>) THEN ""
                    ELSE IF StartsWith(rel, <<"2", ".", "6", ".", "32", ".">>) THEN "_SP1"
                    ELSE IF StartsWith(rel, <<"3", ".", "0", ".">>) THEN "_SP2"
                    ELSE "_UNKNOWN_SP"
        IN  /\ probe.out.kind = "ret"
            /\ probe.out.val \in {<<"11", suff>>} \cup (IF suff = "" THEN {<<"11">>} ELSE {})

(* C7: get_cpu_model, get_system_name and get_system_version never raise:
   get_cpu_model falls back to sysctl when /proc/cpuinfo has no 'model name'
   line, get_system_name uses platform.dist() when
   platform.linux_distribution is unavailable, and each returns a value or
   its sentinel. *)
C7_ProbesNeverRaise ==
    /\ probe.fn \in {"get_cpu_model", "get_system_name", "get_system_version"} =>
           probe.out.kind = "ret"
    /\ (/\ probe.fn = "get_cpu_model"
        /\ probe.env.cpuinfo.readable
        /\ FirstLine(probe.env.cpuinfo.lines, "model name") = 0) =>
           probe.out = IF probe.env.brand.exitcode = 0
                       THEN PRet(Strip(probe.env.brand.out)) ELSE PRet(<<"UNKNOWN">>)
    /\ (probe.fn = "get_system_name" /\ ~probe.env.linux_distribution.avail) =>
           LET legacy == Lower(Strip(probe.env.dist_name))
           IN  probe.out.val \in {legacy, <<"UNKNOWN_SYSTEM_NAME">>, <<"RHEL">>, <<"SL">>}

(* C8: get_cpu_vendor returns the result of the first of its sources that
   yields a match, in the order /proc/cpuinfo vendor_id (a known id), sysctl
   machdep.cpu.vendor (a known id), sysctl hw.model (first token), and raises
   SystemToolsException exactly when none does; a /proc/cpuinfo without a
   vendor_id line or with an unknown id leads to the sysctl sources. *)
C8_VendorFallbackChain ==
    probe.fn = "get_cpu_vendor" =>
        LET env == probe.env
            m == IF env.cpuinfo.readable THEN FirstLine(env.cpuinfo.lines, "vendor_id") ELSE 0
            id == IF m > 0 THEN env.cpuinfo.lines[m].val[1] ELSE ""
            out1 == Strip(env.machdep.out)
            out2 == Strip(env.hwmodel.out)
            match1 == id \in {"GenuineIntel", "AuthenticAMD"}
            match2 == env.machdep.exitcode = 0 /\ out1 \in {<<"GenuineIntel">>, <<"AuthenticAMD">>}
            match3 == env.hwmodel.exitcode = 0 /\ out2 # <<>>
            norm(v) == IF v = "GenuineIntel" THEN <<INTEL>> ELSE <<AMD>>
        IN  IF match1 THEN probe.out = PRet(norm(id))
            ELSE IF match2 THEN probe.out = PRet(norm(out1[1]))
            ELSE IF match3 THEN probe.out = PRet(Split(out2, " ")[1])
            ELSE probe.out = PRaise("SystemToolsException")

(* C9: get_core_count returns the value of the first available source in the
   order cpu_count(), sysconf (positive), number of 'processor<tab>:' lines of a
   readable /proc/cpuinfo (positive), sysctl hw.ncpu (numeric and positive); 4
   such lines with the first two sources unavailable give 4; every value
   returned is an integer >= 1; it raises SystemToolsException when all four
   sources fail. *)
C9_CoreCountOrder ==
    probe.fn = "get_core_count" =>
        LET env == probe.env
            ncpu == ParseInt(env.ncpu.out)
            vals == <<IF env.cpu_count.exc = "" THEN env.cpu_count.n ELSE 0,
                      IF env.sysconf.exc = "" THEN env.sysconf.n ELSE 0,
                      IF env.cpuinfo.readable THEN CountProcessor(env.cpuinfo.lines) ELSE 0,
                      IF ncpu.ok THEN ncpu.n ELSE 0>>
            good == {i \in 1..4 : vals[i] >= 1}
        IN  /\ good = {} <=> probe.out = PRaise("SystemToolsException")
            /\ good # {} => probe.out = PRet(vals[CHOOSE i \in good : \A j \in good : i <= j])
            /\ probe.out.kind = "ret" => (probe.out.val \in Int /\ probe.out.val >= 1)
            /\ (vals[1] = 0 /\ vals[2] = 0 /\ vals[3] = 4) => probe.out = PRet(4)

C9_Witness ==
    /\ probe.fn = "get_core_count"
    /\ probe.env.cpu_count.exc = "ImportError"
    /\ probe.env.sysconf.exc = "AttributeError"
    /\ probe.env.cpuinfo.readable
    /\ CountProcessor(probe.env.cpuinfo.lines) = 4
    /\ probe.out = PRet(4)

====
